---- MODULE Spec2Model ----
(***************************************************************************)
(* Model of pyrpl/memory.py: the MemoryTree / MemoryBranch settings store. *)
(*                                                                         *)
(* A MemoryTree keeps a nested ordered mapping (_data) that mirrors one    *)
(* yaml file.  Reads go through _reload (an mtime check at most once per   *)
(* _loadsavedeadtime), writes go through _save (an immediate flush when    *)
(* the deadtime has elapsed, otherwise a single-shot QTimer is armed that  *)
(* calls _save again).  A flush copies the file to .bak, writes .tmp,      *)
(* unlinks the file and renames .tmp onto it.                              *)
(***************************************************************************)
EXTENDS Integers, Sequences, FiniteSets, TLC

VARIABLES
    now,          \* the clock read by time()
    phase,        \* "new" before MemoryTree.__init__ has run, "ready" after
    filename,     \* MemoryTree._filename: the path <<dir, name>> of the file
    root,         \* MemoryTree._data: the ordered mapping of the whole tree
    mtime,        \* MemoryTree._mtime
    lastsave,     \* MemoryTree._lastsave
    lastreload,   \* MemoryTree._lastreload
    save_counter, \* MemoryTree._save_counter
    savetimer,    \* MemoryTree._savetimer: [active, deadline]
    disk,         \* the files <<dir, name>> of the three config directories
    fmtime,       \* os.path.getmtime of the tree's file
    bak,          \* content of _filename + ".bak"
    tmp,          \* content of _buffer_filename (_filename + ".tmp")
    cwd,          \* the directory a relative path resolves to
    disk0,        \* the config files as they were before __init__ ran
    args,         \* the arguments of __init__: [path, source]
    classdata,    \* the class attribute MemoryTree._data
    tree2,        \* a second MemoryTree instance: [made, fn, root]
    ret,          \* what the last call did: its name, arguments, value, error
    scen,         \* progress of the end-to-end write scenario
    burst         \* bookkeeping of the current burst of writes

vars == <<now, phase, filename, root, mtime, lastsave, lastreload, save_counter,
          savetimer, disk, fmtime, bak, tmp, cwd, disk0, args, classdata,
          tree2, ret, scen, burst>>

-----------------------------------------------------------------------------
(* Bounds of the model.                                                    *)

\* the clock stops advancing here
MaxTime == 8
\* _save_counter is not incremented beyond this by the model's callers
MaxSaves == 3

(* Program constants.                                                      *)

\* MemoryTree._loadsavedeadtime, in time units (seconds)
_loadsavedeadtime == 3

-----------------------------------------------------------------------------
(* Nodes: a leaf value or an ordered submapping.  A mapping is a sequence  *)
(* of entries [k, v] with distinct keys: an OrderedDict / CommentedMap.    *)

Leaf(n) == [t |-> "leaf", n |-> n, m |-> <<>>]
Map(m) == [t |-> "map", n |-> 0, m |-> m]
Entry(k, v) == [k |-> k, v |-> v]

\* isbranch(obj): isinstance(obj, dict)
isbranch(node) == node.t = "map"

\* k in d
HasKey(m, k) == \E i \in DOMAIN m : m[i].k = k

\* d[k], for a key that is present
Get(m, k) == m[CHOOSE i \in DOMAIN m : m[i].k = k].v

\* d[k] = v: an existing key keeps its place, a new key goes last
Put(m, k, v) ==
    IF HasKey(m, k)
    THEN [i \in DOMAIN m |-> IF m[i].k = k THEN Entry(k, v) ELSE m[i]]
    ELSE Append(m, Entry(k, v))

\* d.pop(k), the mapping that is left
Pop(m, k) == SelectSeq(m, LAMBDA e : e.k # k)

\* d.update(other): the entries of other, in their order
RECURSIVE Update(_, _)
Update(m, other) ==
    IF other = <<>> THEN m
    ELSE Update(Put(m, Head(other).k, Head(other).v), Tail(other))

\* the keys of a mapping, as a set
KeySet(m) == {m[i].k : i \in DOMAIN m}

\* dict(value): a plain dict built from the entries of value. A plain dict
\* has no specified iteration order on the interpreters this code ran on
\* (CPython before 3.7), so every order of the same entries can result.
DictCopies(m) ==
    LET n == Len(m)
        perms == {p \in [1..n -> 1..n] : \A i, j \in 1..n : p[i] = p[j] => i = j}
    IN {[i \in 1..n |-> m[p[i]]] : p \in perms}

-----------------------------------------------------------------------------
(* The yaml backend: save(data, stream) renders block style, one line per  *)
(* key ("key: value", "key:" followed by the deeper lines, or "key: {}");  *)
(* load(stream) parses it back.  A text is a sequence of lines.            *)

Line(ind, key, kind, val) == [ind |-> ind, key |-> key, kind |-> kind, val |-> val]

\* no file at this path
Missing == <<Line(0, "", "missing", 0)>>
\* a file that is not valid yaml, or a half-written one
Garbage == <<Line(0, "", "garbage", 0)>>
\* an empty file
EmptyText == <<>>
\* the text of an empty mapping
FlowEmpty == <<Line(0, "", "{}", 0)>>

RECURSIVE DumpBlock(_, _)
DumpBlock(m, ind) ==
    IF m = <<>> THEN <<>>
    ELSE LET e == Head(m)
             first == IF ~isbranch(e.v) THEN <<Line(ind, e.k, "leaf", e.v.n)>>
                      ELSE IF e.v.m = <<>> THEN <<Line(ind, e.k, "{}", 0)>>
                      ELSE <<Line(ind, e.k, "map", 0)>> \o DumpBlock(e.v.m, ind + 1)
         IN first \o DumpBlock(Tail(m), ind)

\* save(data, stream): the text written for the mapping m
save(m) == IF m = <<>> THEN FlowEmpty ELSE DumpBlock(m, 0)

\* the number of lines at the head of text that are indented deeper than ind
RECURSIVE Deeper(_, _)
Deeper(text, ind) ==
    IF text = <<>> \/ Head(text).ind <= ind THEN 0
    ELSE 1 + Deeper(Tail(text), ind)

RECURSIVE ParseBlock(_)
ParseBlock(text) ==
    IF text = <<>> THEN <<>>
    ELSE LET h == Head(text)
             n == Deeper(Tail(text), h.ind)
             inner == SubSeq(text, 2, n + 1)
             rest == SubSeq(text, n + 2, Len(text))
             node == IF h.kind = "leaf" THEN Leaf(h.val)
                     ELSE IF h.kind = "{}" THEN Map(<<>>)
                     ELSE Map(ParseBlock(inner))
         IN <<Entry(h.key, node)>> \o ParseBlock(rest)

\* whether the yaml parser accepts the text
Parses(text) == \A i \in DOMAIN text : text[i].kind \in {"leaf", "map", "{}"}

\* Python's None
None == [t |-> "none", n |-> 0, m |-> <<>>]

\* load(stream): the parsed node; None for an empty document
load(text) ==
    IF text = EmptyText THEN None
    ELSE IF text = FlowEmpty THEN Map(<<>>)
    ELSE Map(ParseBlock(text))

-----------------------------------------------------------------------------
(* Locating the config file.  A path is <<directory, file name>>; the      *)
(* directory "" is a relative path, which the file system resolves against *)
(* the working directory.                                                  *)

user_config_dir == "user"
default_config_dir == "default"
Dirs == {"user", "default", "other"}
FileNames == {"cfg.yml", "src.yml"}

\* filename=None: no persistent config file
NoPath == <<"", "">>

\* the file a path names
Phys(path, wd) == IF path[1] = "" THEN <<wd, path[2]>> ELSE path

\* os.path.isfile(path)
isfile(path, dsk, wd) == dsk[Phys(path, wd)] # Missing

\* if not filename.endswith(".yml"): filename = filename + ".yml"
WithExt(name) ==
    IF name \in {"cfg", "src"} THEN
        (IF name = "cfg" THEN "cfg.yml" ELSE "src.yml")
    ELSE name

\* _get_filename(filename): the first of the given directory, the user
\* directory and the default directory that holds the file; else the place
\* in the user directory
_get_filename(path, dsk, wd) ==
    LET f == WithExt(path[2])
        tries == <<<<path[1], f>>, <<user_config_dir, f>>, <<default_config_dir, f>>>>
        hits == {i \in 1..3 : isfile(tries[i], dsk, wd)}
    IN IF hits # {}
       THEN tries[CHOOSE i \in hits : \A j \in hits : i <= j]
       ELSE <<user_config_dir, f>>

\* shutil.copyfile(src, dst)
copyfile(src, dst, dsk, wd) ==
    [dsk EXCEPT ![Phys(dst, wd)] = dsk[Phys(src, wd)]]

\* get_config_file(filename, source): the path to use and the disk it leaves.
\* created tells whether the file at that path was written by this call.
get_config_file(path, source, dsk, wd) ==
    IF path = NoPath THEN [path |-> NoPath, disk |-> dsk, created |-> FALSE]
    ELSE
    LET fn == _get_filename(path, dsk, wd)
    IN IF isfile(fn, dsk, wd) THEN
          IF fn[1] = default_config_dir
          THEN LET dest == <<user_config_dir, fn[2]>>
               IN [path |-> dest, disk |-> copyfile(fn, dest, dsk, wd),
                   created |-> TRUE]
          ELSE [path |-> fn, disk |-> dsk, created |-> FALSE]
       ELSE IF source # NoPath /\ isfile(_get_filename(source, dsk, wd), dsk, wd)
       THEN [path |-> fn,
             disk |-> copyfile(_get_filename(source, dsk, wd), fn, dsk, wd),
             created |-> TRUE]
       ELSE [path |-> fn, disk |-> [dsk EXCEPT ![Phys(fn, wd)] = EmptyText],
             created |-> TRUE]

-----------------------------------------------------------------------------
(* The tree and its files as one value s, so that the steps of a handler   *)
(* compose: fn (_filename), root (_data), mtime, lastsave, lastreload,     *)
(* cnt (_save_counter), timer (_savetimer), disk, fmtime, bak, tmp, wd,    *)
(* and err, the exception that ended the handler ("none" if it returned).  *)

Raise(s, e) == [s EXCEPT !.err = e]

\* the content of the tree's file
FileText(s) == s.disk[Phys(s.fn, s.wd)]

\* the tree's file written (or removed) at time t
SetFile(s, text, t) ==
    [s EXCEPT !.disk = [@ EXCEPT ![Phys(s.fn, s.wd)] = text], !.fmtime = t]

\* MemoryTree._load
_load(s, t) ==
    IF s.fn = NoPath THEN s
    ELSE LET text == FileText(s)
         IN IF text = Missing THEN Raise(s, "IOError(open)")
            ELSE IF ~Parses(text) THEN Raise(s, "ParseError")
            ELSE [s EXCEPT !.root = IF load(text) = None THEN <<>> ELSE load(text).m,
                           !.mtime = s.fmtime,
                           !.lastreload = t]

\* a _reload that already looks at the file when exactly the deadtime has passed
_reload_at_deadtime(s, t) ==
    IF s.fn = NoPath THEN s
    ELSE IF t >= s.lastreload + _loadsavedeadtime
    THEN LET s1 == [s EXCEPT !.lastreload = t]
         IN IF s1.mtime # s1.fmtime THEN _load(s1, t) ELSE s1
    ELSE s

\* MemoryTree._reload
_reload(s, t) ==
    IF s.fn = NoPath THEN s
    ELSE IF t > s.lastreload + _loadsavedeadtime
    THEN LET s1 == [s EXCEPT !.lastreload = t]
         IN IF s1.mtime # s1.fmtime THEN _load(s1, t) ELSE s1
    ELSE s

\* where an injected failure can hit a flush
FailPoints == {"none", "backup", "write", "unlink", "rename"}
\* the exceptions of the file system calls
IOErrors == {"IOError(open)", "IOError(backup)", "IOError(write)",
             "IOError(unlink)", "IOError(rename)"}

\* copyfile(self._filename, self._filename + ".bak")
Backup(s) == [s EXCEPT !.bak = FileText(s)]

\* a writer that fills the buffer file and never moves it onto the file
WriteNoReplace(s, t, fail) == [s EXCEPT !.tmp = save(s.root)]

\* the try block of _save up to the failing call: the buffer file is written
\* (half-written when the write fails), the file unlinked, the buffer renamed
WriteAndReplace(s, t, fail) ==
    IF fail = "write" THEN Raise([s EXCEPT !.tmp = Garbage], "IOError(write)")
    ELSE IF fail = "unlink"
    THEN Raise([s EXCEPT !.tmp = save(s.root)], "IOError(unlink)")
    ELSE IF fail = "rename"
    THEN Raise(SetFile([s EXCEPT !.tmp = save(s.root)], Missing, t), "IOError(rename)")
    ELSE SetFile([s EXCEPT !.tmp = Missing], save(s.root), t)

\* a handler that re-raises without copying the backup over the file
NoRestore(s, t) == s

\* except: copyfile(self._filename + ".bak", self._filename); raise
Restore(s, t) == SetFile(s, s.bak, t)

\* the body of _save once the deadtime has passed (lines 501-524)
Flush(s, t, fail) ==
    LET s1 == [s EXCEPT !.lastsave = t]
    IN IF fail = "backup" THEN Raise(s1, "IOError(backup)")
       ELSE LET s2 == WriteAndReplace(Backup(s1), t, fail)
            IN IF s2.err # "none" THEN Restore(s2, t)
               ELSE [s2 EXCEPT !.mtime = s2.fmtime]

\* a timer started for what is left of the deadtime since the last save
StartTimerForRemaining(s, t) ==
    [s EXCEPT !.timer = [active |-> TRUE,
                         deadline |-> s.lastsave + _loadsavedeadtime]]

\* self._savetimer.start(): the single-shot timer runs for its interval
StartTimer(s, t) ==
    [s EXCEPT !.timer = [active |-> TRUE, deadline |-> t + _loadsavedeadtime]]

\* self._savetimer.stop()
StopTimer(s) == [s EXCEPT !.timer = [active |-> FALSE, deadline |-> 0]]

\* a _save that ignores the deadtime and flushes on every call
_save_undebounced(s, deadtime, t, fail) ==
    LET s1 == [s EXCEPT !.cnt = @ + 1]
    IN IF s1.fn = NoPath THEN s1 ELSE Flush(s1, t, fail)

\* a _save that lacks the return for a tree without a file name and goes on
\* to arm the timer
_save_arms_without_file(s, deadtime, t, fail) ==
    LET s1 == [s EXCEPT !.cnt = @ + 1]
    IN IF s1.fn # NoPath /\ s1.lastsave + deadtime < t THEN Flush(s1, t, fail)
       ELSE IF ~s1.timer.active THEN StartTimer(s1, t)
       ELSE s1

\* a _save without the else branch that starts the timer
_save_never_arms(s, deadtime, t, fail) ==
    LET s1 == [s EXCEPT !.cnt = @ + 1]
    IN IF s1.fn = NoPath THEN s1
       ELSE IF s1.lastsave + deadtime < t THEN Flush(s1, t, fail)
       ELSE s1

\* MemoryTree._save(deadtime)
_save(s, deadtime, t, fail) ==
    LET s1 == [s EXCEPT !.cnt = @ + 1]
    IN IF s1.fn = NoPath THEN s1
       ELSE IF s1.lastsave + deadtime < t THEN Flush(s1, t, fail)
       ELSE IF ~s1.timer.active THEN StartTimer(s1, t)
       ELSE s1

\* a _save_now that forces the save and leaves the timer running
_save_now_keeps_timer(s, t, fail) == _save(s, -1, t, fail)

\* MemoryTree._save_now
_save_now(s, t, fail) ==
    \* without a file name __init__ never created self._savetimer
    IF s.fn = NoPath THEN Raise(s, "AttributeError") ELSE
    LET s1 == IF s.timer.active THEN StopTimer(s) ELSE s
        s2 == _save(s1, -1, t, fail)
    IN IF s2.err # "none" THEN s2
       ELSE IF s2.timer.active THEN StopTimer(s2) ELSE s2

-----------------------------------------------------------------------------
(* Branches.  A MemoryBranch is a view [path, defaults]: path is <<>> for  *)
(* the tree itself and <<name>> for a branch of the tree; defaults is the  *)
(* list of default branches (views), highest priority first.               *)

View(path, defaults) == [path |-> path, defaults |-> defaults]

\* the outcome of a lookup: a node, or the exception raised
Found(v) == [st |-> "ok", v |-> v]
Failed(e) == [st |-> e, v |-> None]

\* MemoryBranch._data: self._parent._data[self._branch]
_data(rt, path) ==
    IF path = <<>> THEN Found(Map(rt))
    ELSE IF HasKey(rt, path[1]) THEN Found(Get(rt, path[1]))
    ELSE Failed("KeyError")

\* self._data[item]
ItemOf(rt, path, item) ==
    LET d == _data(rt, path)
    IN IF d.st # "ok" THEN d
       ELSE IF ~isbranch(d.v) THEN Failed("TypeError")
       ELSE IF HasKey(d.v.m, item) THEN Found(Get(d.v.m, item))
       ELSE Failed("KeyError")

\* the tree with the own mapping of the branch at path replaced by m
SetData(rt, path, m) == IF path = <<>> THEN m ELSE Put(rt, path[1], Map(m))

\* the loop over self._defaults of __getitem__: the first default branch
\* whose own data holds the item; a KeyError is passed over
RECURSIVE DefaultsLookup(_, _, _)
DefaultsLookup(rt, defaults, item) ==
    IF defaults = <<>> THEN Failed("KeyError")
    ELSE LET r == ItemOf(rt, Head(defaults).path, item)
         IN IF r.st = "KeyError" THEN DefaultsLookup(rt, Tail(defaults), item)
            ELSE r

\* a lookup that walks the defaults from the lowest priority to the highest
LookupLowestFirst(rt, view, item) ==
    LET own == ItemOf(rt, view.path, item)
        Reverse(seq) == [i \in 1..Len(seq) |-> seq[Len(seq) + 1 - i]]
    IN IF own.st = "KeyError"
       THEN DefaultsLookup(rt, Reverse(view.defaults), item)
       ELSE own

\* MemoryBranch.__getitem__ after the reload: own data first, then defaults
Lookup(rt, view, item) ==
    LET own == ItemOf(rt, view.path, item)
    IN IF own.st = "KeyError" THEN DefaultsLookup(rt, view.defaults, item)
       ELSE own

\* MemoryBranch._dict: the dict built from the _dict of each default branch,
\* lowest priority first, and then from the own data. DictOfDefaults is d
\* after the loop over reversed(self._defaults).
RECURSIVE _dict(_, _), DictOfDefaults(_, _)
DictOfDefaults(rt, defaults) ==
    IF defaults = <<>> THEN Found(Map(<<>>))
    ELSE LET lower == DictOfDefaults(rt, Tail(defaults))
         IN IF lower.st # "ok" THEN lower
            ELSE LET dd == _dict(rt, Head(defaults))
                 IN IF dd.st # "ok" THEN dd
                    ELSE Found(Map(Update(lower.v.m, dd.v.m)))

_dict(rt, view) ==
    LET d == DictOfDefaults(rt, view.defaults)
        own == _data(rt, view.path)
    IN IF d.st # "ok" THEN d
       ELSE IF own.st # "ok" THEN own
       ELSE IF ~isbranch(own.v) THEN Failed("TypeError")
       ELSE Found(Map(Update(d.v.m, own.v.m)))

\* MemoryBranch.__setattr__(name, value) for a name without underscore
__setattr__(s, path, name, value, t, fail) ==
    LET d == _data(s.root, path)
    IN IF d.st # "ok" THEN Raise(s, d.st)
       ELSE IF ~isbranch(d.v) THEN Raise(s, "TypeError")
       ELSE _save([s EXCEPT !.root = SetData(s.root, path, Put(d.v.m, name, value))],
                  _loadsavedeadtime, t, fail)

\* MemoryBranch.__setitem__(item, value); copy is what dict(value) gives
__setitem__(s, path, item, value, copy, t, fail) ==
    LET d == _data(s.root, path)
    IN IF d.st # "ok" THEN Raise(s, d.st)
       ELSE IF ~isbranch(d.v) THEN Raise(s, "TypeError")
       ELSE IF HasKey(d.v.m, item) THEN __setattr__(s, path, item, value, t, fail)
       ELSE LET stored == IF isbranch(value) THEN Map(copy) ELSE value
            IN _save([s EXCEPT !.root = SetData(s.root, path, Put(d.v.m, item, stored))],
                     _loadsavedeadtime, t, fail)

\* MemoryBranch._update(new_dict)
_update(s, path, new_dict, t, fail) ==
    LET d == _data(s.root, path)
    IN IF d.st # "ok" THEN Raise(s, d.st)
       ELSE IF ~isbranch(d.v) THEN Raise(s, "AttributeError")
       ELSE _save([s EXCEPT !.root = SetData(s.root, path, Update(d.v.m, new_dict))],
                  _loadsavedeadtime, t, fail)

\* MemoryBranch._pop(name)
_pop(s, path, name, t, fail) ==
    LET d == _data(s.root, path)
    IN IF d.st # "ok" THEN Raise(s, d.st)
       ELSE IF ~isbranch(d.v) THEN Raise(s, "AttributeError")
       ELSE IF ~HasKey(d.v.m, name) THEN Raise(s, "KeyError")
       ELSE _save([s EXCEPT !.root = SetData(s.root, path, Pop(d.v.m, name))],
                  _loadsavedeadtime, t, fail)

\* MemoryBranch._rename(name) of the branch <<branch>> of the tree:
\* self._parent[name] = self._parent._pop(self._branch); self._save()
_rename(s, branch, name, copy, t, fail) ==
    LET value == ItemOf(s.root, <<>>, branch)
        s1 == _pop(s, <<>>, branch, t, fail)
    IN IF s1.err # "none" THEN s1
       ELSE LET s2 == __setitem__(s1, <<>>, name, value.v, copy, t, fail)
            IN IF s2.err # "none" THEN s2
               ELSE _save(s2, _loadsavedeadtime, t, fail)

\* MemoryBranch._erase(): self._parent._pop(self._branch); self._save()
_erase(s, branch, t, fail) ==
    LET s1 == _pop(s, <<>>, branch, t, fail)
    IN IF s1.err # "none" THEN s1
       ELSE _save(s1, _loadsavedeadtime, t, fail)

\* MemoryBranch._get_yml()
_get_yml(rt, path) == save(_data(rt, path).v.m)

\* MemoryBranch._set_yml(yml_content) of the branch <<branch>> of the tree
_set_yml(s, branch, yml_content, t, fail) ==
    IF ~Parses(yml_content) THEN Raise(s, "ParseError")
    ELSE _save([s EXCEPT !.root = Put(s.root, branch, load(yml_content))],
               _loadsavedeadtime, t, fail)

\* MemoryBranch.__getitem__(item): the tree after the reload, and the outcome
__getitem__(s, view, item, t) ==
    LET s1 == _reload(s, t)
    IN IF s1.err # "none" THEN [s |-> s1, r |-> Failed(s1.err)]
       ELSE [s |-> s1, r |-> Lookup(s1.root, view, item)]

-----------------------------------------------------------------------------
(* Construction.                                                           *)

\* MemoryTree.__init__(filename, source) at time t on the disk dsk. Until
\* _load assigns self._data, the instance reads the class attribute cls.
__init__(path, source, dsk, wd, t, cls) ==
    LET g == get_config_file(path, source, dsk, wd)
        s0 == [fn |-> g.path, root |-> cls, mtime |-> 0, lastsave |-> 0,
               lastreload |-> 0, cnt |-> 0,
               timer |-> [active |-> FALSE, deadline |-> 0],
               disk |-> g.disk, fmtime |-> IF g.created THEN t ELSE 0,
               bak |-> Missing, tmp |-> Missing, wd |-> wd, err |-> "none"]
        s1 == IF path = NoPath THEN s0 ELSE [s0 EXCEPT !.lastsave = t]
    IN _load(s1, t)

-----------------------------------------------------------------------------
(* The state of the model as a value, and a value made the next state.     *)

Cur ==
    [fn |-> filename, root |-> root, mtime |-> mtime, lastsave |-> lastsave,
     lastreload |-> lastreload, cnt |-> save_counter, timer |-> savetimer,
     disk |-> disk, fmtime |-> fmtime, bak |-> bak, tmp |-> tmp, wd |-> cwd,
     err |-> "none"]

Assign(s) ==
    /\ filename' = s.fn
    /\ root' = s.root
    /\ mtime' = s.mtime
    /\ lastsave' = s.lastsave
    /\ lastreload' = s.lastreload
    /\ save_counter' = s.cnt
    /\ savetimer' = s.timer
    /\ disk' = s.disk
    /\ fmtime' = s.fmtime
    /\ bak' = s.bak
    /\ tmp' = s.tmp
    /\ cwd' = s.wd
    /\ disk0' = disk0
    \* without a file the instance has no _data of its own: what it reads and
    \* mutates is the class attribute
    /\ classdata' = IF s.fn = NoPath THEN s.root ELSE classdata

\* the next state after a call on the constructed tree
Becomes(s) ==
    /\ Assign(s)
    /\ args' = args
    /\ tree2' = tree2

\* what a call left behind: its name, the branch it went through, the key,
\* the value written or read, the exception it raised, and whether a
\* deferred save was armed when it began
Call(op, view, k, val, err) ==
    [op |-> op, view |-> view, k |-> k, val |-> val, err |-> err,
     pending |-> savetimer.active]

NoView == View(<<>>, <<>>)

\* no call: time passed or another process acted
Idle == [op |-> "idle", view |-> NoView, k |-> "", val |-> None, err |-> "none",
         pending |-> FALSE]

-----------------------------------------------------------------------------
(* Bookkeeping for the properties: what the handlers did to the disk.      *)

\* 1 when the handler that took pre to post replaced the file, else 0: a
\* flush sets _lastsave to a later time, and it succeeded if nothing raised
DiskWrites(pre, post) ==
    IF post.lastsave # pre.lastsave /\ post.err = "none" THEN 1 ELSE 0

\* the write at time t comes no later than _lastsave + deadtime
InDeadtime(pre, t) == ~(pre.lastsave + _loadsavedeadtime < t)

NoBurst == [live |-> FALSE, start |-> 0, n |-> 0, flushes |-> 0, ok |-> FALSE]

\* a burst is the writes within less than a deadtime of its first write.
\* n counts them (2 stands for two or more), flushes the disk writes since
\* the first one, ok tells that no deferred save was armed when the burst
\* began and that every write of it came within the deadtime of _lastsave.
\* A burst is no longer followed once a call raised in it.
BurstOnWrite(pre, post, t) ==
    IF post.err # "none" THEN NoBurst
    ELSE IF burst.live /\ t < burst.start + _loadsavedeadtime
    THEN [burst EXCEPT !.n = 2,
                       !.flushes = @ + DiskWrites(pre, post),
                       !.ok = @ /\ InDeadtime(pre, t)]
    ELSE [live |-> TRUE, start |-> t, n |-> 1,
          flushes |-> DiskWrites(pre, post),
          ok |-> ~pre.timer.active /\ InDeadtime(pre, t)]

BurstOnTimer(pre, post) ==
    IF post.err # "none" \/ ~burst.live THEN NoBurst
    ELSE [burst EXCEPT !.flushes = @ + DiskWrites(pre, post)]

\* the end-to-end scenario: the file held {a: {x: 1}} at construction and the
\* only call so far is the write of y = 2 on branch a
E2ERoot == <<Entry("a", Map(<<Entry("x", Leaf(1))>>))>>
E2EFinal == <<Entry("a", Map(<<Entry("x", Leaf(1)), Entry("y", Leaf(2))>>))>>

ScenOnWrite(view, k, v, pre, post) ==
    IF scen = "init" /\ view.path = <<"a">> /\ k = "y" /\ v = Leaf(2)
       /\ post.err = "none"
    THEN (IF DiskWrites(pre, post) = 1 THEN "sync" ELSE "deferred")
    ELSE "void"

ScenOnTimer(post) ==
    IF scen \in {"sync", "deferred"} /\ post.err = "none" THEN scen ELSE "void"

-----------------------------------------------------------------------------
(* The steps.                                                              *)

\* a mutating call through a branch took the tree to post
Mutated(op, view, k, val, post) ==
    /\ Becomes(post)
    /\ ret' = Call(op, view, k, val, post.err)
    /\ scen' = ScenOnWrite(view, k, val, Cur, post)
    /\ burst' = BurstOnWrite(Cur, post, now)
    /\ UNCHANGED <<now, phase>>

\* time passes
Tick ==
    /\ phase = "ready"
    /\ now < MaxTime
    /\ now' = now + 1
    /\ ret' = Idle
    /\ UNCHANGED <<phase, filename, root, mtime, lastsave, lastreload,
                   save_counter, savetimer, disk, fmtime, bak, tmp, cwd,
                   disk0, args, classdata, tree2, scen, burst>>

\* the single-shot timer times out and calls the connected _save; the timer
\* is no longer active while the slot runs
Timeout(fails) ==
    /\ phase = "ready"
    /\ savetimer.active
    /\ now >= savetimer.deadline
    /\ \E fail \in fails :
         LET post == _save(StopTimer(Cur), _loadsavedeadtime, now, fail)
         IN /\ Becomes(post)
            /\ ret' = Call("timeout", NoView, "", None, post.err)
            /\ scen' = ScenOnTimer(post)
            /\ burst' = BurstOnTimer(Cur, post)
    /\ UNCHANGED <<now, phase>>

\* branch.name = value
Write(view, k, v, fails) ==
    /\ phase = "ready"
    /\ save_counter < MaxSaves
    /\ \E fail \in fails :
         Mutated("write", view, k, v, __setattr__(Cur, view.path, k, v, now, fail))

\* branch[item] = value
SetItem(view, k, v, fails) ==
    /\ phase = "ready"
    /\ save_counter < MaxSaves
    /\ \E fail \in fails :
         Mutated("setitem", view, k, v,
                 __setitem__(Cur, view.path, k, v, <<>>, now, fail))

\* branch._update(new_dict)
UpdateOp(view, new_dict, fails) ==
    /\ phase = "ready"
    /\ save_counter < MaxSaves
    /\ \E fail \in fails :
         Mutated("update", view, "", None,
                 _update(Cur, view.path, new_dict, now, fail))

\* branch._pop(name)
PopOp(view, k, fails) ==
    /\ phase = "ready"
    /\ save_counter < MaxSaves
    /\ \E fail \in fails :
         Mutated("pop", view, k, None, _pop(Cur, view.path, k, now, fail))

\* branch._rename(name), for a branch of the tree
Rename(view, name, fails) ==
    /\ phase = "ready"
    /\ save_counter < MaxSaves
    /\ LET old == ItemOf(root, <<>>, view.path[1])
           copies == IF old.st = "ok" /\ isbranch(old.v)
                     THEN DictCopies(old.v.m) ELSE {<<>>}
       IN \E fail \in fails, copy \in copies :
            Mutated("rename", view, name, None,
                    _rename(Cur, view.path[1], name, copy, now, fail))

\* branch._erase(), for a branch of the tree
Erase(view, fails) ==
    /\ phase = "ready"
    /\ save_counter < MaxSaves
    /\ \E fail \in fails :
         Mutated("erase", view, "", None, _erase(Cur, view.path[1], now, fail))

\* branch._set_yml(yml_content), for a branch of the tree
SetYml(view, yml_content, fails) ==
    /\ phase = "ready"
    /\ save_counter < MaxSaves
    /\ \E fail \in fails :
         Mutated("set_yml", view, "", None,
                 _set_yml(Cur, view.path[1], yml_content, now, fail))

\* branch[item]
Read(view, k) ==
    /\ phase = "ready"
    /\ LET g == __getitem__(Cur, view, k, now)
       IN /\ Becomes(g.s)
          /\ ret' = Call("read", view, k, g.r.v, IF g.r.st = "ok" THEN "none" ELSE g.r.st)
          /\ burst' = IF g.s.root # root \/ g.r.st \in IOErrors \cup {"ParseError"}
                      THEN NoBurst ELSE burst
    /\ scen' = "void"
    /\ UNCHANGED <<now, phase>>

\* branch._dict
Dict(view) ==
    /\ phase = "ready"
    /\ LET d == _dict(root, view)
       IN ret' = Call("dict", view, "", d.v, IF d.st = "ok" THEN "none" ELSE d.st)
    /\ scen' = "void"
    /\ UNCHANGED <<now, phase, filename, root, mtime, lastsave, lastreload,
                   save_counter, savetimer, disk, fmtime, bak, tmp, cwd, disk0,
                   args, classdata, tree2, burst>>

\* tree._save_now()
SaveNow(fails) ==
    /\ phase = "ready"
    /\ save_counter < MaxSaves
    /\ \E fail \in fails :
         LET post == _save_now(Cur, now, fail)
         IN /\ Becomes(post)
            /\ ret' = Call("save_now", NoView, "", None, post.err)
    /\ scen' = "void"
    /\ burst' = NoBurst
    /\ UNCHANGED <<now, phase>>

\* another process rewrites the tree's file. Its modification time is later
\* than every time this process has seen, so the clock moves on with it.
ExternalEdit(text) ==
    /\ phase = "ready"
    /\ filename # NoPath
    /\ now < MaxTime
    /\ now' = now + 1
    /\ disk' = [disk EXCEPT ![Phys(filename, cwd)] = text]
    /\ fmtime' = now + 1
    /\ scen' = "void"
    /\ burst' = NoBurst
    /\ ret' = Idle
    /\ UNCHANGED <<phase, filename, root, mtime, lastsave, lastreload,
                   save_counter, savetimer, bak, tmp, cwd, disk0, args,
                   classdata, tree2>>

-----------------------------------------------------------------------------
(* The store: one tree on a file of the user directory, written through    *)
(* branch a, read back, flushed by the timer, edited from outside.         *)

NoFiles == [p \in Dirs \X FileNames |-> Missing]

\* no second instance has been constructed
NoTree2 == [made |-> FALSE, fn |-> NoPath, root |-> <<>>]

StoreTexts == {save(E2ERoot)}
ExternalTexts == {save(<<Entry("a", Map(<<Entry("x", Leaf(2))>>))>>)}
StoreView == View(<<"a">>, <<>>)
Keys == {"x", "y"}
Values == {Leaf(1), Leaf(2)}

\* the state right after MemoryTree("cfg") on a user directory whose
\* cfg.yml holds text
Constructed(text) ==
    LET dsk == [NoFiles EXCEPT ![<<user_config_dir, "cfg.yml">>] = text]
        s == __init__(<<user_config_dir, "cfg">>, NoPath, dsk, "other", 0, <<>>)
    IN /\ phase = "ready"
       /\ disk0 = dsk
       /\ classdata = <<>>
       /\ tree2 = NoTree2
       /\ args = [path |-> <<user_config_dir, "cfg">>, source |-> NoPath]
       /\ filename = s.fn /\ root = s.root /\ mtime = s.mtime
       /\ lastsave = s.lastsave /\ lastreload = s.lastreload
       /\ save_counter = s.cnt /\ savetimer = s.timer /\ disk = s.disk
       /\ fmtime = s.fmtime /\ bak = s.bak /\ tmp = s.tmp /\ cwd = s.wd
       /\ ret = Idle
       /\ burst = NoBurst

Init ==
    /\ now = 0
    /\ \E text \in StoreTexts :
         /\ Constructed(text)
         /\ scen = IF text = save(E2ERoot) THEN "init" ELSE "void"

Next ==
    \/ Tick
    \/ Timeout({"none"})
    \/ \E v \in Values : Write(StoreView, "y", v, {"none"})
    \/ \E k \in Keys : Read(StoreView, k)
    \/ SaveNow({"none"})
    \/ \E text \in ExternalTexts : ExternalEdit(text)

Spec == Init /\ [][Next]_vars

\* the store with failures injected into the flushes, and no other process
NextFail ==
    \/ Tick
    \/ Timeout(FailPoints)
    \/ \E v \in Values : Write(StoreView, "y", v, FailPoints)
    \/ Read(StoreView, "y")
    \/ SaveNow(FailPoints)

SpecFail == Init /\ [][NextFail]_vars

-----------------------------------------------------------------------------
(* The branches: a tree with the branches a, d1 and d2, used through views *)
(* of a that name d1 and d2 as defaults, and through plain views of each.  *)

D1 == View(<<"d1">>, <<>>)
D2 == View(<<"d2">>, <<>>)
A12 == View(<<"a">>, <<D1, D2>>)
BranchViews == {A12, D1, D2}
NewNames == {"d1", "n"}
BranchRoots ==
    {<<Entry("a", Map(<<>>)), Entry("d1", Map(<<>>)), Entry("d2", Map(<<>>))>>,
     <<Entry("a", Map(<<Entry("x", Leaf(1)), Entry("y", Leaf(2))>>)),
       Entry("d1", Map(<<Entry("y", Leaf(1))>>)),
       Entry("d2", Map(<<Entry("x", Leaf(2))>>))>>}
Updates == {<<Entry("y", Leaf(1)), Entry("x", Leaf(2))>>}
YmlTexts == {save(<<Entry("y", Leaf(1))>>)}

\* the calls begin right after construction, or once the deadtime has passed
BranchStarts == {0, _loadsavedeadtime + 1}

InitBranch ==
    /\ now \in BranchStarts
    /\ \E rt \in BranchRoots : Constructed(save(rt))
    /\ scen = "void"

NextBranch ==
    \/ \E view \in BranchViews, k \in Keys, v \in Values : Write(view, k, v, {"none"})
    \/ \E k \in Keys, v \in Values : SetItem(A12, k, v, {"none"})
    \/ \E nd \in Updates : UpdateOp(A12, nd, {"none"})
    \/ \E k \in Keys : PopOp(A12, k, {"none"})
    \/ \E name \in NewNames : Rename(A12, name, {"none"})
    \/ Erase(A12, {"none"})
    \/ \E text \in YmlTexts : SetYml(A12, text, {"none"})
    \/ \E k \in Keys : Read(A12, k)

SpecBranch == InitBranch /\ [][NextBranch]_vars

-----------------------------------------------------------------------------
(* Merged views: branch a is used with the defaults [d1, d2], and with the *)
(* default d1 that has the default d2 of its own.                          *)

D1over2 == View(<<"d1">>, <<D2>>)
AChain == View(<<"a">>, <<D1over2>>)
DictViews == {A12, AChain}

NextDict ==
    \/ \E view \in BranchViews, k \in Keys, v \in Values : Write(view, k, v, {"none"})
    \/ \E k \in Keys : PopOp(A12, k, {"none"})
    \/ \E view \in DictViews, k \in Keys : Read(view, k)
    \/ \E view \in DictViews : Dict(view)

SpecDict == InitBranch /\ [][NextDict]_vars

-----------------------------------------------------------------------------
(* Resolution: the tree is built by name on a disk where the file may be   *)
(* in the given directory, the user directory, the default directory or    *)
(* nowhere; then it is written through branch a and saved.                 *)

\* MemoryTree(filename, source)
Construct(path, source) ==
    /\ phase = "new"
    /\ LET s == __init__(path, source, disk, cwd, now, classdata)
       IN /\ Assign(s)
          /\ phase' = IF s.err = "none" THEN "ready" ELSE "failed"
          /\ ret' = Call("init", NoView, "", None, s.err)
    /\ args' = [path |-> path, source |-> source]
    /\ UNCHANGED <<now, tree2, scen, burst>>

TemplateText == save(E2ERoot)
UserText == save(<<Entry("a", Map(<<Entry("x", Leaf(2))>>))>>)
SourceText == save(<<Entry("a", Map(<<>>))>>)

\* each of the four files is there or not
ResolveDisks ==
    {[p \in Dirs \X FileNames |->
        IF p = <<default_config_dir, "cfg.yml">> /\ "template" \in have THEN TemplateText
        ELSE IF p = <<user_config_dir, "cfg.yml">> /\ "user" \in have THEN UserText
        ELSE IF p = <<"other", "cfg.yml">> /\ "other" \in have THEN UserText
        ELSE IF p = <<default_config_dir, "src.yml">> /\ "source" \in have THEN SourceText
        ELSE Missing] : have \in SUBSET {"template", "user", "other", "source"}}

ArgPaths == {<<"", "cfg">>, <<default_config_dir, "cfg">>, <<"other", "cfg.yml">>}
ArgSources == {NoPath, <<"", "src">>}

InitResolve ==
    /\ now = 0
    /\ phase = "new"
    /\ disk \in ResolveDisks
    /\ disk0 = disk
    /\ cwd \in Dirs
    /\ args = [path |-> NoPath, source |-> NoPath]
    /\ classdata = <<>>
    /\ tree2 = NoTree2
    /\ filename = NoPath /\ root = <<>> /\ mtime = 0 /\ lastsave = 0
    /\ lastreload = 0 /\ save_counter = 0
    /\ savetimer = [active |-> FALSE, deadline |-> 0]
    /\ fmtime = 0 /\ bak = Missing /\ tmp = Missing
    /\ ret = Idle
    /\ scen = "void"
    /\ burst = NoBurst

NextResolve ==
    \/ \E path \in ArgPaths, source \in ArgSources : Construct(path, source)
    \/ \E v \in Values : Write(StoreView, "y", v, {"none"})
    \/ SaveNow({"none"})

SpecResolve == InitResolve /\ [][NextResolve]_vars

-----------------------------------------------------------------------------
(* Instances: a tree built without a file name, or on a file, next to a    *)
(* second instance of MemoryTree.  _data = OrderedDict() in the class body *)
(* is one object; an instance gets a _data of its own only when _load      *)
(* assigns it, which it does not without a file name.                      *)

\* the mapping the second instance reads as self._data
Data2 == IF tree2.fn = NoPath THEN classdata ELSE tree2.root

\* MemoryTree(filename) for the second instance. Nothing writes its file
\* afterwards, so its _reload never finds another mtime.
Construct2(path) ==
    /\ ~tree2.made
    /\ LET s == __init__(path, NoPath, disk, cwd, now, classdata)
       IN /\ s.err = "none"
          /\ tree2' = [made |-> TRUE, fn |-> s.fn, root |-> s.root]
          /\ disk' = s.disk
    /\ ret' = Idle
    /\ UNCHANGED <<now, phase, filename, root, mtime, lastsave, lastreload,
                   save_counter, savetimer, fmtime, bak, tmp, cwd, disk0, args,
                   classdata, scen, burst>>

\* branch[item] through the second instance
Read2(view, k) ==
    /\ tree2.made
    /\ LET r == Lookup(Data2, view, k)
       IN ret' = Call("read2", view, k, r.v, IF r.st = "ok" THEN "none" ELSE r.st)
    /\ UNCHANGED <<now, phase, filename, root, mtime, lastsave, lastreload,
                   save_counter, savetimer, disk, fmtime, bak, tmp, cwd, disk0,
                   args, classdata, tree2, scen, burst>>

MemPaths == {NoPath, <<user_config_dir, "cfg">>}
MemPaths2 == {NoPath, <<user_config_dir, "src">>}

InitMem ==
    /\ now \in BranchStarts
    /\ phase = "new"
    /\ disk = [NoFiles EXCEPT ![<<user_config_dir, "cfg.yml">>] = save(E2ERoot),
                              ![<<user_config_dir, "src.yml">>] = save(E2ERoot)]
    /\ disk0 = disk
    /\ cwd = "other"
    /\ args = [path |-> NoPath, source |-> NoPath]
    /\ classdata = <<>>
    /\ tree2 = NoTree2
    /\ filename = NoPath /\ root = <<>> /\ mtime = 0 /\ lastsave = 0
    /\ lastreload = 0 /\ save_counter = 0
    /\ savetimer = [active |-> FALSE, deadline |-> 0]
    /\ fmtime = 0 /\ bak = Missing /\ tmp = Missing
    /\ ret = Idle
    /\ scen = "void"
    /\ burst = NoBurst

NextMem ==
    \/ \E path \in MemPaths : Construct(path, NoPath)
    \/ \E path \in MemPaths2 : Construct2(path)
    \/ SetItem(NoView, "a", Map(<<>>), {"none"})
    \/ \E k \in Keys, v \in Values : Write(StoreView, k, v, {"none"})
    \/ \E k \in Keys : Read(StoreView, k)
    \/ \E k \in Keys : Read2(StoreView, k)
    \/ SaveNow({"none"})

SpecMem == InitMem /\ [][NextMem]_vars

-----------------------------------------------------------------------------
(* Loading: the tree is built on a file that holds a mapping, nothing, or  *)
(* no valid yaml, and another process rewrites the file with any of these  *)
(* while the tree is read.                                                 *)

LoadTexts == {save(E2ERoot), EmptyText, Garbage}

InitLoad ==
    /\ now = 0
    /\ phase = "new"
    /\ \E text \in LoadTexts :
         disk = [NoFiles EXCEPT ![<<user_config_dir, "cfg.yml">>] = text]
    /\ disk0 = disk
    /\ cwd = "other"
    /\ args = [path |-> NoPath, source |-> NoPath]
    /\ classdata = <<>>
    /\ tree2 = NoTree2
    /\ filename = NoPath /\ root = <<>> /\ mtime = 0 /\ lastsave = 0
    /\ lastreload = 0 /\ save_counter = 0
    /\ savetimer = [active |-> FALSE, deadline |-> 0]
    /\ fmtime = 0 /\ bak = Missing /\ tmp = Missing
    /\ ret = Idle
    /\ scen = "void"
    /\ burst = NoBurst

NextLoad ==
    \/ Construct(<<user_config_dir, "cfg">>, NoPath)
    \/ Tick
    \/ \E k \in Keys : Read(StoreView, k)
    \/ \E text \in LoadTexts \cup ExternalTexts : ExternalEdit(text)

SpecLoad == InitLoad /\ [][NextLoad]_vars

-----------------------------------------------------------------------------
(* Scheduling: the store with a clock that keeps running and an event loop *)
(* that delivers the timeout of an active timer.  The clock of the model   *)
(* stops at MaxTime, so the writes stop early enough for a timer to fire   *)
(* and, if it was re-armed, to fire once more.                             *)

\* the last time at which the callers write
LastWrite == MaxTime - 2 * _loadsavedeadtime

NextLive ==
    \/ Tick
    \/ Timeout({"none"})
    \/ (now <= LastWrite /\ \E v \in Values : Write(StoreView, "y", v, {"none"}))
    \/ SaveNow({"none"})

SpecLive ==
    /\ Init
    /\ [][NextLive]_vars
    /\ WF_vars(Tick)
    /\ WF_vars(Timeout({"none"}))

-----------------------------------------------------------------------------
(* Properties of the store.                                                *)

\* what the debounce promises for the burst being followed: no second disk
\* write, and once no deferred save is armed exactly one disk write has
\* happened and the file holds the root as the last write left it
Coalesced ==
    /\ burst.flushes <= 1
    /\ ~savetimer.active => burst.flushes = 1 /\ FileText(Cur) = save(root)

\* C1 as stated: every burst of N >= 1 writes within less than a deadtime
\* causes exactly one disk write, holding the root after the Nth write,
\* whatever the timer and _lastsave were when the burst began.
C1_AnyBurstOneDiskWrite == burst.live => Coalesced

\* C1 as amended: a burst that begins with no deferred save armed and whose
\* writes all come no later than _lastsave + deadtime writes nothing to disk
\* while the deferred save is armed, and the deferred save then performs the
\* one disk write, which holds the root after the Nth write.
C1_BurstInDeadtimeOneDiskWrite ==
    (burst.live /\ burst.ok) =>
        /\ Coalesced
        /\ savetimer.active => burst.flushes = 0

\* a burst of two or more writes in the deadtime has been flushed once
C1_Witness ==
    /\ burst.live /\ burst.ok /\ burst.n = 2
    /\ ~savetimer.active /\ burst.flushes = 1
    /\ FileText(Cur) = save(root)

\* C2: a write of v to key k of branch b that returned, directly followed by
\* a read of k through b, reads v.
C2_ReadAfterWrite ==
    [][(/\ ret.op = "write" /\ ret.err = "none"
        /\ ret'.op = "read" /\ ret'.view = ret.view /\ ret'.k = ret.k)
       => (ret'.err = "none" /\ ret'.val = ret.val)]_vars

\* C5: a flush that fails (backup, buffer write, unlink or rename) leaves
\* every config file, the tree's own among them, with the content it had
\* before the save attempt.
C5_FailedFlushKeepsFile == [][ret'.err \in IOErrors => disk' = disk]_vars

\* the rename of the buffer file failed after the file had been unlinked,
\* and the file holds its old content, which is not the root
C5_Witness ==
    /\ ret.err = "IOError(rename)"
    /\ FileText(Cur) = bak
    /\ FileText(Cur) # save(root)

\* C8 as stated: after the single write of y = 2 on branch a, once no
\* deferred save is armed, the file holds {a: {x: 1, y: 2}} and
\* _save_counter is 1.
C8_ScenarioCounterIsOne ==
    (scen \in {"sync", "deferred"} /\ ~savetimer.active) =>
        (FileText(Cur) = save(E2EFinal) /\ save_counter = 1)

\* C8 as amended: the file holds {a: {x: 1, y: 2}}; _save_counter is 1 when
\* the write was flushed synchronously, and at least 2 when the write armed
\* the deferred save, whose run is a call of _save as well.
C8_ScenarioCounterCountsCallback ==
    (scen \in {"sync", "deferred"} /\ ~savetimer.active) =>
        /\ FileText(Cur) = save(E2EFinal)
        /\ scen = "sync" => save_counter = 1
        /\ scen = "deferred" => save_counter >= 2

\* the write was deferred and the callback has flushed it
C8_Witness ==
    /\ scen = "deferred" /\ ~savetimer.active
    /\ FileText(Cur) = save(E2EFinal) /\ save_counter = 2

\* C10: when _save_now returns without error no deferred save is armed and
\* the file holds the serialization of the root, so that nothing armed
\* before the call can write later.
C10_SaveNowFlushesAndCancels ==
    (ret.op = "save_now" /\ ret.err = "none") =>
        (~savetimer.active /\ FileText(Cur) = save(root))

\* _save_now returned after it found a deferred save armed
C10_Witness ==
    /\ ret.op = "save_now" /\ ret.err = "none" /\ ret.pending
    /\ ~savetimer.active /\ FileText(Cur) = save(root)


-----------------------------------------------------------------------------
(* Properties of the branches.                                             *)

\* the calls that change the tree through a branch
MutOps == {"write", "setitem", "update", "pop", "rename", "erase", "set_yml"}

\* C3: a mutating call made through branch b leaves the own data of every
\* default branch of b as it was.
C3_DefaultsUntouched ==
    [][(ret'.op \in MutOps /\ ret'.err = "none") =>
         \A i \in DOMAIN ret'.view.defaults :
            _data(root', ret'.view.defaults[i].path)
              = _data(root, ret'.view.defaults[i].path)]_vars

\* C4: a read of k through b with defaults [d1, d2] returns b's own value
\* if b holds k, else d1's own value if d1 holds k, else d2's own value if
\* d2 holds k, and else fails with KeyError and no value.
C4_DefaultsPrecedence ==
    (ret.op = "read" /\ Len(ret.view.defaults) = 2) =>
        LET b == ret.view.path[1]
            d1 == ret.view.defaults[1].path[1]
            d2 == ret.view.defaults[2].path[1]
            Holds(n) == HasKey(root, n) /\ HasKey(Get(root, n).m, ret.k)
            Own(n) == Get(Get(root, n).m, ret.k)
        IN IF Holds(b) THEN ret.err = "none" /\ ret.val = Own(b)
           ELSE IF Holds(d1) THEN ret.err = "none" /\ ret.val = Own(d1)
           ELSE IF Holds(d2) THEN ret.err = "none" /\ ret.val = Own(d2)
           ELSE ret.err = "KeyError" /\ ret.val = None

\* a read of a key that b lacks and that d1 and d2 hold with different
\* values returned d1's value
C4_Witness ==
    /\ ret.op = "read" /\ ret.err = "none" /\ ret.view = A12
    /\ HasKey(root, "a") /\ ~HasKey(Get(root, "a").m, ret.k)
    /\ HasKey(root, "d1") /\ HasKey(Get(root, "d1").m, ret.k)
    /\ HasKey(root, "d2") /\ HasKey(Get(root, "d2").m, ret.k)
    /\ Get(Get(root, "d1").m, ret.k) # Get(Get(root, "d2").m, ret.k)
    /\ ret.val = Get(Get(root, "d1").m, ret.k)

\* C6: each mutating call that returns increases _save_counter by exactly 1.
C6_OneSavePerMutation ==
    [][(ret'.op \in MutOps /\ ret'.err = "none") =>
         save_counter' = save_counter + 1]_vars

\* C7: after branch.rename(new) with new # old the parent has no key old,
\* has a key new holding the branch's former own data, keys, values and key
\* order alike, and no other key of the parent and no default branch changed.
C7_RenameMovesOwnData ==
    [][(/\ ret'.op = "rename" /\ ret'.err = "none"
        /\ ret'.k # ret'.view.path[1]) =>
         LET old == ret'.view.path[1]
             new == ret'.k
         IN /\ ~HasKey(root', old)
            /\ HasKey(root', new)
            /\ Get(root', new) = Get(root, old)
            /\ \A n \in KeySet(root) \ {old, new} :
                 HasKey(root', n) /\ Get(root', n) = Get(root, n)
            /\ KeySet(root') = (KeySet(root) \ {old}) \cup {new}
            /\ \A i \in DOMAIN ret'.view.defaults :
                 _data(root', ret'.view.defaults[i].path)
                   = _data(root, ret'.view.defaults[i].path)]_vars

\* C21: once branch[k] has been read through a branch b, k is a key of
\* b._dict exactly if the read returned, and then b._dict holds the value
\* that was read; b's defaults may have defaults of their own.
C21_DictAgreesWithRead ==
    [][ret'.op = "read" =>
         LET d == _dict(root', ret'.view)
         IN /\ d.st = "ok"
            /\ HasKey(d.v.m, ret'.k) <=> ret'.err = "none"
            /\ ret'.err = "none" => Get(d.v.m, ret'.k) = ret'.val]_vars

-----------------------------------------------------------------------------
(* Properties of the resolution.                                           *)

\* the file named f is in the default directory and in no other
OnlyInTemplate(dsk, f) ==
    /\ dsk[<<default_config_dir, f>>] # Missing
    /\ \A d \in Dirs \ {default_config_dir} : dsk[<<d, f>>] = Missing

\* C9: when the named file exists only in the default directory, the tree is
\* built on the copy in the user directory, and whatever is written and
\* saved afterwards the file of the default directory keeps the content it
\* had before the resolution.
C9_TemplateNeverMutated ==
    (phase = "ready" /\ OnlyInTemplate(disk0, WithExt(args.path[2]))) =>
        /\ filename = <<user_config_dir, WithExt(args.path[2])>>
        /\ disk[<<default_config_dir, WithExt(args.path[2])>>]
             = disk0[<<default_config_dir, WithExt(args.path[2])>>]

\* C22: a file of the resolved name that is in the user directory before
\* the tree is built by name, with or without a directory and a source,
\* has the same content after get_config_file has returned.
C22_UserFileKept ==
    [][ret'.op = "init" =>
         LET u == <<user_config_dir, WithExt(args'.path[2])>>
         IN disk[u] # Missing => disk'[u] = disk[u]]_vars

-----------------------------------------------------------------------------
(* Properties of the instances.                                            *)

\* the tree has been built without a file name
InMemory == phase = "ready" /\ filename = NoPath

\* C11: on a tree built without a file name no call touches a file or arms
\* the timer, _load (in __init__), _reload (in a read) and _save (in a write)
\* raise nothing and leave the mapping alone, _save only counting; a write
\* stores the value in the branch and a read finds what the mapping holds.
C11_InMemoryNoPersistence ==
    [][(phase' = "ready" /\ filename' = NoPath) =>
         /\ disk' = disk /\ bak' = bak /\ tmp' = tmp /\ fmtime' = fmtime
         /\ ~savetimer'.active
         /\ ret'.op = "init" => ret'.err = "none" /\ root' = classdata
                                /\ save_counter' = 0
         /\ ret'.op = "read" =>
              /\ root' = root /\ save_counter' = save_counter
              /\ IF ItemOf(root, ret'.view.path, ret'.k).st = "ok"
                 THEN ret'.err = "none"
                      /\ ret'.val = ItemOf(root, ret'.view.path, ret'.k).v
                 ELSE ret'.err = ItemOf(root, ret'.view.path, ret'.k).st
         /\ (ret'.op = "write" /\ _data(root, ret'.view.path).st = "ok") =>
              /\ ret'.err = "none"
              /\ save_counter' = save_counter + 1
              /\ ItemOf(root', ret'.view.path, ret'.k) = Found(ret'.val)
              /\ \A n \in KeySet(root) \ {ret'.view.path[1]} :
                   HasKey(root', n) /\ Get(root', n) = Get(root, n)]_vars

\* a value written through a branch of a tree without a file was read back
C11_Witness ==
    /\ InMemory
    /\ ret.op = "read" /\ ret.err = "none" /\ ret.val = Leaf(2)
    /\ save_counter >= 2

\* C23: _save_now on a tree built without a file name returns without an
\* exception, touches no file, backup or buffer and leaves the mapping as
\* it was.
C23_SaveNowInMemory ==
    [][(ret'.op = "save_now" /\ filename = NoPath) =>
         /\ ret'.err = "none"
         /\ disk' = disk /\ bak' = bak /\ tmp' = tmp /\ fmtime' = fmtime
         /\ root' = root]_vars

\* C14: a mutating call through the first instance leaves the data read
\* through the second instance as it was.
C14_IndependentRoots ==
    [][(tree2.made /\ ret'.op \in MutOps) => Data2' = Data2]_vars

-----------------------------------------------------------------------------
(* Properties of loading.                                                  *)

\* the exceptions of reading and parsing the file
LoadErrors == IOErrors \cup {"ParseError"}

\* a file without a mapping in it: empty, or not valid yaml
Unreadable(text) == text = EmptyText \/ ~Parses(text)

\* C12: when _load, run by __init__ or by the _reload of a read, finds the
\* file empty or malformed, the mapping becomes empty, _mtime and
\* _lastreload are updated and the caller sees no error of the load.
C12_ParseErrorsAbsorbed ==
    [][(\/ /\ ret'.op = "init" /\ filename' # NoPath
           /\ Unreadable(disk'[Phys(filename', cwd)])
        \/ /\ ret'.op = "read" /\ filename # NoPath
           /\ now > lastreload + _loadsavedeadtime /\ mtime # fmtime
           /\ Unreadable(FileText(Cur))) =>
         /\ ret'.err \notin LoadErrors
         /\ root' = <<>>
         /\ mtime' = fmtime'
         /\ lastreload' = now]_vars

\* the read of this step was made on a file-backed tree
FileRead == ret'.op = "read" /\ filename # NoPath

\* what a read does once it is due to look at the file: _lastreload is set,
\* and when the file's mtime is not the stored one _load runs before the
\* lookup, so that the mapping and the value read are those of the file
Reloaded ==
    /\ lastreload' = now
    /\ IF mtime = fmtime THEN root' = root /\ mtime' = mtime
       ELSE /\ root' = load(FileText(Cur)).m
            /\ mtime' = fmtime
            /\ ret'.val = Lookup(load(FileText(Cur)).m, ret'.view, ret'.k).v

\* a read that does not look at the file
NotReloaded == lastreload' = lastreload /\ root' = root /\ mtime' = mtime

\* C17 as stated: a read does not look at the file when less than the
\* deadtime has passed since _lastreload, and looks at it, reloading an
\* externally edited file, when the deadtime or more has passed.
C17_ReloadAtDeadtime ==
    [][FileRead =>
         IF now - lastreload < _loadsavedeadtime THEN NotReloaded
         ELSE Reloaded]_vars

\* C17 as amended: a read does not look at the file when no more than the
\* deadtime has passed since _lastreload; when more has passed it sets
\* _lastreload and, if the mtimes differ, runs _load before the lookup: a
\* file that holds a mapping or nothing is what the read then returns from,
\* and the exception of a file that does not parse reaches the caller.
C17_ReloadAfterDeadtime ==
    [][FileRead =>
         IF now - lastreload <= _loadsavedeadtime THEN NotReloaded
         ELSE IF mtime # fmtime /\ ~Parses(FileText(Cur))
         THEN lastreload' = now /\ root' = root /\ ret'.err = "ParseError"
         ELSE IF mtime # fmtime /\ FileText(Cur) = EmptyText
         THEN lastreload' = now /\ root' = <<>> /\ mtime' = fmtime
              /\ ret'.err = "KeyError"
         ELSE Reloaded]_vars

\* a read made more than the deadtime after the last look at the file has
\* returned the value another process wrote
C17_Witness ==
    /\ ret.op = "read" /\ ret.err = "none" /\ ret.k = "x" /\ ret.val = Leaf(2)
    /\ lastreload = now /\ now > _loadsavedeadtime
    /\ root = load(FileText(Cur)).m

-----------------------------------------------------------------------------
(* Properties of saving.                                                   *)

\* C13: on a file-backed tree, with no other process writing the file, the
\* stored _mtime is the file's modification time after every load and
\* every save attempt, failed and restored ones included, so that a reload
\* check finds nothing to reload.
C13_StoredMtimeIsFileMtime ==
    (phase = "ready" /\ filename # NoPath) => mtime = fmtime

\* the _save of this step, called by a write or by the timer with the
\* default deadtime, returned
Saved == ret'.op \in {"write", "timeout"} /\ ret'.err = "none"

\* that _save flushed: only a flush moves _lastsave
Flushed == lastsave' # lastsave

\* C15: after a _save that flushed synchronously, and after a _save_now
\* that returned, no deferred save is armed, whether or not one was armed
\* before the call.
C15_FlushLeavesNothingPending ==
    [][((Saved /\ Flushed) \/ (ret'.op = "save_now" /\ ret'.err = "none")) =>
         ~savetimer'.active]_vars

\* whether the timer was running when the _save of this step was called:
\* it is not running while its own timeout is being handled
ArmedBefore == ret'.op = "write" /\ savetimer.active

\* C16 as stated: _save flushes iff now - _lastsave >= d; otherwise, if no
\* deferred save is scheduled, it schedules one for _lastsave + d; one that
\* is scheduled stays as it is.
C16_DeadlineIsLastSavePlusDeadtime ==
    [][Saved =>
         /\ Flushed <=> now - lastsave >= _loadsavedeadtime
         /\ (~Flushed /\ ~ArmedBefore) =>
              savetimer' = [active |-> TRUE,
                            deadline |-> lastsave + _loadsavedeadtime]
         /\ (~Flushed /\ ArmedBefore) => savetimer' = savetimer]_vars

\* C16 as amended: _save flushes iff now - _lastsave > d; otherwise, if no
\* deferred save is scheduled, it starts the timer for a full interval, to
\* fire at now + _loadsavedeadtime; one that is scheduled stays as it is.
C16_DeadlineIsNowPlusInterval ==
    [][Saved =>
         /\ Flushed <=> now - lastsave > _loadsavedeadtime
         /\ (~Flushed /\ ~ArmedBefore) =>
              savetimer' = [active |-> TRUE,
                            deadline |-> now + _loadsavedeadtime]
         /\ (~Flushed /\ ArmedBefore) => savetimer' = savetimer]_vars

\* a write later than the last flush armed the timer
C16_Witness ==
    /\ ret.op = "write" /\ ret.err = "none" /\ ~ret.pending
    /\ savetimer.active /\ savetimer.deadline = now + _loadsavedeadtime
    /\ lastsave < now

\* C19: a failure of the copy to .bak raises nothing to the caller of the
\* save: no call ends with the exception of that copy.
C19_BackupFailureNotRaised ==
    [][ret'.err # "IOError(backup)"]_vars

\* C20: a value written through a branch and not yet flushed is still in
\* the mapping after a following read, whatever another process did to the
\* file before.
C20_ReloadKeepsUnsavedWrite ==
    [][(ret.op = "write" /\ ret.err = "none" /\ ret'.op = "read") =>
         ItemOf(root', ret.view.path, ret.k) = Found(ret.val)]_vars

-----------------------------------------------------------------------------
(* Properties of scheduling.                                               *)

\* no deferred save is armed and the file holds the dump of the mapping
Persisted == ~savetimer.active /\ FileText(Cur) = save(root)

\* a write through a branch has returned
Written == ret.op = "write" /\ ret.err = "none"

\* C18 as stated: after a write the tree eventually has no pending save and
\* a file that equals the dump of the mapping, and every timeout of the
\* timer performs the flush.
C18_CallbackAlwaysFlushes ==
    /\ Written ~> Persisted
    /\ [][ret'.op = "timeout" => Flushed]_vars

\* C18 as amended: after a write the tree eventually has no pending save
\* and a file that equals the dump of the mapping; a timeout of the timer
\* calls _save, which flushes if more than the deadtime has passed since
\* _lastsave and else starts the timer again.
C18_EventuallyPersisted ==
    /\ Written ~> Persisted
    /\ [][ret'.op = "timeout" =>
            IF now - lastsave > _loadsavedeadtime
            THEN Flushed /\ ~savetimer'.active /\ FileText(Cur)' = save(root)
            ELSE ~Flushed /\ disk' = disk
                 /\ savetimer' = [active |-> TRUE,
                                  deadline |-> now + _loadsavedeadtime]]_vars

\* the timer armed by a write has fired and flushed what was written
C18_Witness ==
    /\ ret.op = "timeout" /\ ret.err = "none" /\ lastsave = now
    /\ Persisted /\ HasKey(Get(root, "a").m, "y")

====
